---- MODULE Spec2Model ----
(***************************************************************************)
(* Model of the IDFM Home Assistant integration:                           *)
(*   - MultiKeyIDFMApi (api_wrapper.py): credential rotation on 429,       *)
(*   - LineTopology (topology.py): topology cache and path containment,    *)
(*   - IDFMDataUpdateCoordinator._async_update_data (__init__.py).         *)
(* Strings are sequences of one-character strings, so that split and       *)
(* substring tests are computed as Python computes them.                   *)
(***************************************************************************)
EXTENDS Integers, Sequences, FiniteSets, TLC

VARIABLES
    ntokens,               \* len(self._tokens) of the MultiKeyIDFMApi
    current_token_index,   \* self._current_token_index
    call,                  \* per caller: the frame of _call_with_retry
    provider,              \* what the Navitia endpoints answer, per line
    topology_cache,        \* LineTopology._topology_cache
    topo,                  \* per caller: the frame of get_ordered_stops
    path,                  \* one evaluation of check_stop_on_path
    norm,                  \* one evaluation of the two _extract_stif_id
    coord                  \* the coordinator: its configuration and refresh frame

vars == <<ntokens, current_token_index, call, provider, topology_cache, topo,
          path, norm, coord>>

-----------------------------------------------------------------------------
(* Bounds *)

MaxTokens == 3        \* largest credential pool
MaxTableStops == 5    \* most stops, over all its routes, in a table handed to
                      \* check_stop_on_path
MaxDepartures == 2    \* most departures in one get_traffic answer
MaxIdLen == 5         \* longest identifier body handed to _extract_stif_id

Procs == {1, 2}       \* callers (coroutines) that may share one object
SeqProcs == {1}       \* the single caller of the non-overlapping specifications

-----------------------------------------------------------------------------
(* Python values *)

\* None; strings are sequences of one-character strings, so this value is
\* different from every string.
None == <<"<None>">>

\* The TypeError Python raises for `"IDFM:" in None`
TypeErrorRaised == <<"<TypeError>">>

\* s[i:] (1-based i)
Drop(s, i) == IF i > Len(s) THEN << >> ELSE SubSeq(s, i, Len(s))

\* sub occurs in s at position i
MatchAt(s, sub, i) ==
    /\ i + Len(sub) - 1 <= Len(s)
    /\ \A k \in 1..Len(sub) : s[i + k - 1] = sub[k]

\* Python `sub in s`
StrContains(s, sub) == \E i \in 1..(Len(s) + 1) : MatchAt(s, sub, i)

\* Python s.find(sub) from position i on, 0 when absent
RECURSIVE StrFind(_, _, _)
StrFind(s, sub, i) ==
    IF i + Len(sub) - 1 > Len(s) THEN 0
    ELSE IF MatchAt(s, sub, i) THEN i
    ELSE StrFind(s, sub, i + 1)

\* Python s.split(sep), sep non-empty
RECURSIVE StrSplit(_, _)
StrSplit(s, sep) ==
    LET at == StrFind(s, sep, 1) IN
    IF at = 0 THEN <<s>>
    ELSE <<SubSeq(s, 1, at - 1)>> \o StrSplit(Drop(s, at + Len(sep)), sep)

\* Python truthiness of an optional string
Truthy(v) == v # None /\ v # << >>

-----------------------------------------------------------------------------
(* api_wrapper.py: MultiKeyIDFMApi *)

\* _rotate_key: the next index
RotateKeyStuck(i, n) == i
RotateKeyClamp(i, n) == IF i + 1 < n THEN i + 1 ELSE i
RotateKeySkip(i, n) == (i + 2) % n
RotateKey(i, n) == (i + 1) % n

\* the `while attempts < max_attempts` test
LoopConditionOffByOne(c) == c.attempts <= c.max_attempts
LoopCondition(c) == c.attempts < c.max_attempts

\* Head of the while loop, run synchronously up to the await: either the call
\* is issued on self._current_client or the loop is left and line 56 raises.
LoopHead(c, idx) ==
    IF LoopCondition(c)
    THEN [c EXCEPT !.pc = "await", !.client = idx, !.tried = Append(@, idx)]
    ELSE [c EXCEPT !.pc = "done", !.result = "exhausted"]

\* the methods that go through _call_with_retry (lines 64-102)
RetriedMethods == {"get_traffic", "get_destinations", "get_directions",
                   "get_infos", "get_line_reports"}

IdleCall == [pc |-> "idle", func |-> "get_traffic", attempts |-> 0, max_attempts |-> 0, client |-> 0,
             tried |-> << >>, answers |-> << >>, result |-> "none", start |-> 0]

\* A logical call, of one of the methods `funcs`, enters _call_with_retry
CallWithRetryOf(p, funcs) ==
    /\ call[p].pc \in {"idle", "done"}
    /\ \E func \in funcs :
          call' = [call EXCEPT ![p] =
              LoopHead([IdleCall EXCEPT !.func = func, !.max_attempts = ntokens,
                                        !.start = current_token_index],
                       current_token_index)]
    /\ UNCHANGED <<ntokens, current_token_index, provider, norm, topology_cache,
                   topo, path, coord>>

CallWithRetry(p) == CallWithRetryOf(p, RetriedMethods)

\* MultiKeyIDFMApi.get_traffic
GetTraffic(p) == CallWithRetryOf(p, {"get_traffic"})

\* what func(client) answered is noted in the frame
Answered(c, kind) == [c EXCEPT !.answers = Append(@, kind)]

\* `return await func(self._current_client)`
OnReturn(c) == [c EXCEPT !.pc = "done", !.result = "ok"]

\* func(client) returns
RespOk(p) ==
    /\ call[p].pc = "await"
    /\ call' = [call EXCEPT ![p] = OnReturn(Answered(@, "ok"))]
    /\ UNCHANGED <<ntokens, current_token_index, provider, norm, topology_cache,
                   topo, path, coord>>

\* the frame after `except RequestError` with err.code == 429
On429(c, idx, n) == LoopHead([c EXCEPT !.attempts = @ + 1], RotateKey(idx, n))

\* func(client) raises RequestError with code 429
Resp429(p) ==
    /\ call[p].pc = "await"
    /\ current_token_index' = RotateKey(current_token_index, ntokens)
    /\ call' = [call EXCEPT ![p] =
          On429(Answered(@, "429"), current_token_index, ntokens)]
    /\ UNCHANGED <<ntokens, provider, norm, topology_cache, topo, path, coord>>

\* the frame after an error that is not a rate limit: `raise err` / `raise e`
OnOtherErrorRetry(c, kind) == LoopHead([c EXCEPT !.attempts = @ + 1], c.client)
OnOtherError(c, kind) == [c EXCEPT !.pc = "done", !.result = kind]

\* func(client) raises RequestError with another code
RespRequestError(p) ==
    /\ call[p].pc = "await"
    /\ call' = [call EXCEPT ![p] =
          OnOtherError(Answered(@, "request_error"), "request_error")]
    /\ UNCHANGED <<ntokens, current_token_index, provider, norm, topology_cache,
                   topo, path, coord>>

\* func(client) raises anything else (a timeout included)
RespException(p) ==
    /\ call[p].pc = "await"
    /\ call' = [call EXCEPT ![p] =
          OnOtherError(Answered(@, "exception"), "exception")]
    /\ UNCHANGED <<ntokens, current_token_index, provider, norm, topology_cache,
                   topo, path, coord>>

-----------------------------------------------------------------------------
(* Identifiers, as the providers write them *)

S_stop_point == <<"s", "t", "o", "p", "_", "p", "o", "i", "n", "t", ":">>
S_IDFM == <<"I", "D", "F", "M", ":">>
S_STIF_StopPoint_Q == <<"S", "T", "I", "F", ":", "S", "t", "o", "p", "P", "o", "i", "n", "t", ":", "Q", ":">>

\* "stop_point:IDFM:STIF:StopPoint:Q:<code>:"
NavitiaStopId(code) == S_stop_point \o S_IDFM \o S_STIF_StopPoint_Q \o code \o <<":">>
\* "stop_point:IDFM:<code>", an identifier without the STIF part
BareNavitiaId(code) == S_stop_point \o S_IDFM \o code
\* "STIF:StopPoint:Q:<code>:"
StifStopId(code) == S_STIF_StopPoint_Q \o code \o <<":">>

-----------------------------------------------------------------------------
(* topology.py: LineTopology *)

\* LineTopology._extract_stif_id
Topology_extract_stif_id(navitia_id) ==
    IF navitia_id = None THEN TypeErrorRaised
    ELSE LET stif_part == IF StrContains(navitia_id, S_IDFM)
                          THEN StrSplit(navitia_id, S_IDFM)[2]
                          ELSE navitia_id
             parts == StrSplit(stif_part, <<":">>)
         IN  IF Len(parts) >= 2 THEN parts[Len(parts) - 1] ELSE None

\* A dict with no entry: the empty Topology Table, the empty cache
EmptyTable == [k \in {} |-> << >>]

Lines == {"L1", "L2"}

\* What the provider holds for one line: its routes, each with its stop_points
Code1 == <<"1">>
Code2 == <<"2">>
Code3 == <<"3">>
Code4 == <<"4">>
RouteOf(id, codes) ==
    [id |-> id, stop_points |-> [i \in 1..Len(codes) |-> NavitiaStopId(codes[i])]]
DataLinear == <<RouteOf("R1", <<Code1, Code2, Code3, Code4>>)>>
DataBranch == <<RouteOf("R1", <<Code1, Code2, Code3>>), RouteOf("R2", <<Code1, Code2, Code4>>)>>
DataSameTerminus == <<RouteOf("R1", <<Code1, Code2, Code4>>), RouteOf("R2", <<Code1, Code3, Code4>>)>>
DataNoRoute == << >>
DataBareIds ==
    <<[id |-> "R1", stop_points |-> <<BareNavitiaId(Code1), BareNavitiaId(Code2)>>],
      [id |-> "R2", stop_points |-> <<NavitiaStopId(Code1), BareNavitiaId(Code3),
                                      NavitiaStopId(<< >>), NavitiaStopId(Code2)>>]>>
\* a stop_point whose "id" is null
DataNullId ==
    <<[id |-> "R1", stop_points |-> <<NavitiaStopId(Code1), NavitiaStopId(Code2)>>],
      [id |-> "R2", stop_points |-> <<NavitiaStopId(Code1), None>>]>>
Datasets == {DataLinear, DataBranch, DataSameTerminus, DataNoRoute, DataBareIds,
             DataNullId}

\* The value of `await self._navitia_request(url)`: None, or the JSON body (a
\* dict, given by its keys and the values of the two keys the code reads)
NoneData == [isNone |-> TRUE, keys |-> {}, routes |-> << >>, stop_points |-> << >>]
JsonRoutes(routes) ==
    [isNone |-> FALSE, keys |-> {"routes"}, routes |-> routes, stop_points |-> << >>]
JsonStopPoints(sps) ==
    [isNone |-> FALSE, keys |-> {"stop_points"}, routes |-> << >>, stop_points |-> sps]
JsonError ==
    [isNone |-> FALSE, keys |-> {"message"}, routes |-> << >>, stop_points |-> << >>]
JsonEmpty ==
    [isNone |-> FALSE, keys |-> {}, routes |-> << >>, stop_points |-> << >>]

\* What the HTTP layer can do with a request whose proper body is `body`
HttpAnswers(body) ==
    { [raised |-> FALSE, status |-> 200, json |-> body],
      [raised |-> FALSE, status |-> 200, json |-> JsonError],
      [raised |-> FALSE, status |-> 200, json |-> JsonEmpty],
      [raised |-> FALSE, status |-> 500, json |-> body],
      [raised |-> TRUE,  status |-> 0,   json |-> JsonEmpty] }

\* LineTopology._navitia_request
NavitiaRequest(answer) ==
    IF answer.raised THEN NoneData
    ELSE IF answer.status # 200 THEN NoneData
    ELSE answer.json

\* how a request was answered: a transport error, a non-success response, a
\* body without the key the caller reads, or the proper body
AnswerKind(answer, key) ==
    IF answer.raised THEN "raised"
    ELSE IF answer.status # 200 THEN "non200"
    ELSE IF key \notin answer.json.keys THEN "nokey"
    ELSE "ok"

\* Python `not data`
Falsy(data) == data.isNone \/ data.keys = {}

\* `not routes_data or "routes" not in routes_data`
RoutesFetchFailed(routes_data) ==
    Falsy(routes_data) \/ "routes" \notin routes_data.keys

\* `points_data and "stop_points" in points_data`
PointsFetched(points_data) ==
    ~Falsy(points_data) /\ "stop_points" \in points_data.keys

\* the inner loop: the normalized identifiers that are truthy, in order
RECURSIVE OrderedStops(_)
OrderedStops(sps) ==
    IF sps = << >> THEN << >>
    ELSE LET stop_id == Topology_extract_stif_id(Head(sps)) IN
         (IF Truthy(stop_id) THEN <<stop_id>> ELSE << >>) \o OrderedStops(Tail(sps))

\* topology[terminus].append(ordered_stops), with the setdefault before it
AddRouteEvenEmpty(topology, ordered_stops) ==
    LET terminus == IF ordered_stops = << >> THEN None
                    ELSE ordered_stops[Len(ordered_stops)] IN
    [k \in DOMAIN topology \cup {terminus} |->
        IF k = terminus
        THEN Append(IF terminus \in DOMAIN topology THEN topology[terminus]
                    ELSE << >>, ordered_stops)
        ELSE topology[k]]
AddRoute(topology, ordered_stops) ==
    IF ordered_stops = << >> THEN topology
    ELSE LET terminus == ordered_stops[Len(ordered_stops)] IN
         [k \in DOMAIN topology \cup {terminus} |->
             IF k = terminus
             THEN Append(IF terminus \in DOMAIN topology THEN topology[terminus]
                         ELSE << >>, ordered_stops)
             ELSE topology[k]]

\* self._topology_cache[line_id] = topology
Store(cache, line_id, topology) ==
    [l \in DOMAIN cache \cup {line_id} |-> IF l = line_id THEN topology ELSE cache[l]]

RoutesUrl(line_id) == [kind |-> "routes", id |-> line_id]
PointsUrl(route_id) == [kind |-> "stop_points", id |-> route_id]

\* self._extract_stif_id(sp["id"]) raises inside the inner loop
ExtractRaises(sps) ==
    \E i \in 1..Len(sps) : Topology_extract_stif_id(sps[i]) = TypeErrorRaised

IdleTopo == [pc |-> "idle", line |-> "L1", pending |-> << >>, topology |-> EmptyTable,
             ret |-> EmptyTable, wrote |-> FALSE, raised |-> FALSE,
             reqs |-> << >>, answers |-> << >>]

\* get_ordered_stops up to its first await
EnterGetOrderedStopsNoCache(cache, line_id) ==
    [IdleTopo EXCEPT !.pc = "routes", !.line = line_id,
                     !.reqs = <<RoutesUrl(line_id)>>]
EnterGetOrderedStops(cache, line_id) ==
    IF line_id \in DOMAIN cache
    THEN [IdleTopo EXCEPT !.pc = "done", !.line = line_id, !.ret = cache[line_id]]
    ELSE [IdleTopo EXCEPT !.pc = "routes", !.line = line_id,
                          !.reqs = <<RoutesUrl(line_id)>>]

\* the `for route in routes_data["routes"]` loop up to its next await, or, when
\* no route is left, lines 53-54
RouteLoop(f) ==
    IF f.pending # << >>
    THEN [f EXCEPT !.pc = "points", !.reqs = Append(@, PointsUrl(Head(f.pending).id))]
    ELSE [f EXCEPT !.pc = "done", !.ret = f.topology, !.wrote = TRUE]

\* lines 29-33: after the routes request
AfterRoutesCachingFailure(f, routes_data) ==
    IF RoutesFetchFailed(routes_data)
    THEN [f EXCEPT !.pc = "done", !.ret = EmptyTable, !.wrote = TRUE]
    ELSE RouteLoop([f EXCEPT !.topology = EmptyTable, !.pending = routes_data.routes])
AfterRoutes(f, routes_data) ==
    IF RoutesFetchFailed(routes_data)
    THEN [f EXCEPT !.pc = "done", !.ret = EmptyTable]
    ELSE RouteLoop([f EXCEPT !.topology = EmptyTable, !.pending = routes_data.routes])

\* lines 40-51: after one stop_points request
AfterPoints(f, points_data) ==
    IF PointsFetched(points_data) /\ ExtractRaises(points_data.stop_points)
    THEN [f EXCEPT !.pc = "done", !.raised = TRUE]
    ELSE RouteLoop([f EXCEPT
             !.topology = IF PointsFetched(points_data)
                          THEN AddRoute(@, OrderedStops(points_data.stop_points))
                          ELSE @,
             !.pending = Tail(@)])

\* the cache once the frame f has run up to its next await or its return
CacheAfterEager(cache, f) ==
    IF f.pc = "done" /\ f.wrote THEN Store(cache, f.line, f.ret)
    ELSE IF f.pc = "points" THEN Store(cache, f.line, f.topology)
    ELSE cache
CacheAfter(cache, f) ==
    IF f.pc = "done" /\ f.wrote THEN Store(cache, f.line, f.ret) ELSE cache

\* A caller enters get_ordered_stops(line_id)
GetOrderedStops(p) ==
    /\ topo[p].pc \in {"idle", "done"}
    /\ \E line_id \in Lines :
          topo' = [topo EXCEPT ![p] = EnterGetOrderedStops(topology_cache, line_id)]
    /\ UNCHANGED <<ntokens, current_token_index, call, provider, norm, topology_cache,
                   path, coord>>

\* The routes request of caller p is answered and p runs on
RoutesAnswered(p) ==
    /\ topo[p].pc = "routes"
    /\ \E answer \in HttpAnswers(JsonRoutes(provider[topo[p].line])) :
          LET f == AfterRoutes([topo[p] EXCEPT
                                   !.answers = Append(@, AnswerKind(answer, "routes"))],
                               NavitiaRequest(answer))
          IN  /\ topo' = [topo EXCEPT ![p] = f]
              /\ topology_cache' = CacheAfter(topology_cache, f)
    /\ UNCHANGED <<ntokens, current_token_index, call, provider, norm, path>>

\* A stop_points request of caller p is answered and p runs on
PointsAnswered(p) ==
    /\ topo[p].pc = "points"
    /\ \E answer \in HttpAnswers(JsonStopPoints(Head(topo[p].pending).stop_points)) :
          LET f == AfterPoints([topo[p] EXCEPT
                                   !.answers = Append(@, AnswerKind(answer, "stop_points"))],
                               NavitiaRequest(answer))
          IN  /\ topo' = [topo EXCEPT ![p] = f]
              /\ topology_cache' = CacheAfter(topology_cache, f)
    /\ UNCHANGED <<ntokens, current_token_index, call, provider, norm, path>>

\* route.index(x): the first position of x, 0 standing for ValueError
RECURSIVE IndexFrom(_, _, _)
IndexFrom(route, x, i) ==
    IF i > Len(route) THEN 0
    ELSE IF route[i] = x THEN i
    ELSE IndexFrom(route, x, i + 1)
ListIndex(route, x) == IndexFrom(route, x, 1)

\* the comparison `idx_start < idx_target <= idx_end`
OrderedNonStrict(idx_start, idx_target, idx_end) ==
    idx_start <= idx_target /\ idx_target <= idx_end
OrderedTargetBeforeEnd(idx_start, idx_target, idx_end) ==
    idx_start < idx_target /\ idx_target < idx_end
Ordered(idx_start, idx_target, idx_end) ==
    idx_start < idx_target /\ idx_target <= idx_end

\* the body of the try block for one route; a ValueError goes to `continue`
RouteServes(route, start_id, target_id, terminus_id) ==
    LET idx_start == ListIndex(route, start_id)
        idx_target == ListIndex(route, target_id)
        idx_end == ListIndex(route, terminus_id)
    IN  IF idx_start = 0 \/ idx_target = 0 \/ idx_end = 0 THEN FALSE
        ELSE Ordered(idx_start, idx_target, idx_end)

\* the `for route in possible_routes` loop
RECURSIVE AnyRouteServes(_, _, _, _)
AnyRouteServes(possible_routes, start_id, target_id, terminus_id) ==
    IF possible_routes = << >> THEN FALSE
    ELSE IF RouteServes(Head(possible_routes), start_id, target_id, terminus_id) THEN TRUE
    ELSE AnyRouteServes(Tail(possible_routes), start_id, target_id, terminus_id)

\* LineTopology.check_stop_on_path
check_stop_on_path(topology, start_id, target_id, terminus_id) ==
    IF terminus_id \notin DOMAIN topology THEN FALSE
    ELSE AnyRouteServes(topology[terminus_id], start_id, target_id, terminus_id)

\* One evaluation of check_stop_on_path on the arguments held in `path`
CheckStopOnPath ==
    /\ path.pc = "ready"
    /\ path' = [path EXCEPT !.pc = "done",
                   !.result = check_stop_on_path(path.topology, path.start_id,
                                                 path.target_id, path.terminus_id)]
    /\ UNCHANGED <<ntokens, current_token_index, call, provider, norm, topology_cache,
                   topo, coord>>

\* check_stop_on_path is called on the table get_ordered_stops returned
CheckStopOnPathOfTable(p) ==
    /\ topo[p].pc = "done"
    /\ ~topo[p].raised
    /\ \E start_id, target_id, terminus_id \in {None, Code1, Code2} :
          path' = [pc |-> "done", topology |-> topo[p].ret, start_id |-> start_id,
                   target_id |-> target_id, terminus_id |-> terminus_id,
                   result |-> check_stop_on_path(topo[p].ret, start_id, target_id,
                                                 terminus_id)]
    /\ UNCHANGED <<ntokens, current_token_index, call, provider, norm, topology_cache,
                   topo, coord>>

\* get_ordered_stops called directly (not from a refresh): its two responses
RoutesResponse(p) == RoutesAnswered(p) /\ UNCHANGED coord
PointsResponse(p) == PointsAnswered(p) /\ UNCHANGED coord

-----------------------------------------------------------------------------
(* __init__.py: IDFMDataUpdateCoordinator *)

\* IDFMDataUpdateCoordinator._extract_stif_id
Coordinator_extract_stif_id(full_id) ==
    IF ~Truthy(full_id) THEN None
    ELSE LET parts == StrSplit(full_id, <<":">>)
         IN  IF Len(parts) >= 2 THEN parts[Len(parts) - 1] ELSE full_id

S_STIF == <<"S", "T", "I", "F", ":">>
Name_Paris == <<"P", "a", "r", "i", "s">>
Name_A == <<"A">>

\* train.schedule is None
NoSchedule == -1
\* datetime.utcnow() of the refresh
Utcd == 1

TransportTypes == {"train", "metro", "tram", "bus"}
Times == {<<1, 29>>, <<1, 30>>}
\* datetime.now(): the hours of the day, the minutes next to the half hour
DayTimes == (0..23) \X {0, 29, 30, 59}
Destinations == {None, Name_Paris, StifStopId(Code3), S_STIF \o <<":">>}
Departure(dest, sched) == [destination_id |-> dest, schedule |-> sched]
Departures ==
    { Departure(StifStopId(Code4), 3), Departure(StifStopId(Code4), 2),
      Departure(StifStopId(<<"9">>), 2), Departure(StifStopId(Code4), 0),
      Departure(StifStopId(Code4), NoSchedule), Departure(None, 3) }
TrafficAnswers ==
    UNION { [1..n -> Departures] : n \in 0..MaxDepartures }

\* the test of lines 142-150: the refresh goes on
GateOpenLate(transport_type, hour, minute) ==
    \/ transport_type \notin {"train", "metro", "tram"}
    \/ (hour = 1 /\ minute < 30)
    \/ (hour < 1 \/ hour > 5)
    \/ (hour = 5 /\ minute > 30)
GateOpen(transport_type, hour, minute) ==
    \/ transport_type \notin {"train", "metro", "tram"}
    \/ (hour = 1 /\ minute < 30)
    \/ (hour < 1 \/ hour > 5)
    \/ (hour = 5 /\ minute >= 30)

\* `self.destination and "STIF:" in self.destination`
UseTopology(destination) == Truthy(destination) /\ StrContains(destination, S_STIF)

\* the filtering loop of lines 176-190
RECURSIVE FilterByTopology(_, _, _, _)
FilterByTopology(tr, topo_data, stop_id_simple, destination_simple) ==
    IF tr = << >> THEN << >>
    ELSE LET train == Head(tr)
             terminus_id_simple == Coordinator_extract_stif_id(train.destination_id)
         IN  (IF check_stop_on_path(topo_data, stop_id_simple, destination_simple,
                                    terminus_id_simple)
              THEN <<train>> ELSE << >>)
             \o FilterByTopology(Tail(tr), topo_data, stop_id_simple, destination_simple)

\* filter(lambda x: x.schedule is not None and x.schedule > utcd, tr)
RECURSIVE FilterPast(_)
FilterPast(tr) ==
    IF tr = << >> THEN << >>
    ELSE (IF Head(tr).schedule # NoSchedule /\ Head(tr).schedule > Utcd
          THEN <<Head(tr)>> ELSE << >>) \o FilterPast(Tail(tr))

\* sorted(..., key=lambda x: x.schedule): a stable insertion
RECURSIVE InsertSorted(_, _)
InsertSorted(sorted, x) ==
    IF sorted = << >> THEN <<x>>
    ELSE IF x.schedule < Head(sorted).schedule THEN <<x>> \o sorted
    ELSE <<Head(sorted)>> \o InsertSorted(Tail(sorted), x)
RECURSIVE Sorted(_)
Sorted(tr) ==
    IF tr = << >> THEN << >>
    ELSE InsertSorted(Sorted(SubSeq(tr, 1, Len(tr) - 1)), tr[Len(tr)])

\* the coordinator as __init__ leaves it
NewCoordinator(transport_type, destination) ==
    [transport_type |-> transport_type, line_id |-> "L1",
     stop_area_id |-> StifStopId(Code2), direction |-> Name_A,
     destination |-> destination,
     stop_id_simple |-> Coordinator_extract_stif_id(StifStopId(Code2)),
     destination_simple |-> IF Truthy(destination)
                            THEN Coordinator_extract_stif_id(destination) ELSE None,
     pc |-> "idle", hour |-> 0, minute |-> 0, use_topology |-> FALSE,
     req_destination |-> None, req_direction |-> None,
     tr |-> << >>, topo_data |-> EmptyTable, filtered |-> FALSE,
     sorted_tr |-> << >>, calls |-> << >>, raised |-> "none", outcome |-> "none"]

\* lines 158-167: the refresh up to `await self.api.get_traffic(...)`
StartRefresh(c, hour, minute) ==
    LET fresh == [c EXCEPT !.hour = hour, !.minute = minute, !.tr = << >>,
                           !.topo_data = EmptyTable, !.filtered = FALSE,
                           !.sorted_tr = << >>, !.outcome = "none",
                           !.calls = << >>, !.raised = "none",
                           !.use_topology = FALSE,
                           !.req_destination = None, !.req_direction = None]
    IN  IF GateOpen(c.transport_type, hour, minute)
        THEN [fresh EXCEPT !.pc = "traffic", !.calls = <<"get_traffic">>,
                 !.use_topology = UseTopology(c.destination),
                 !.req_destination = IF UseTopology(c.destination) THEN None
                                     ELSE c.destination,
                 !.req_direction = IF UseTopology(c.destination) THEN None
                                   ELSE c.direction]
        ELSE [fresh EXCEPT !.pc = "done", !.outcome = "skipped"]

\* lines 192-202: drop the past schedules, sort, up to `await get_line_reports`
SortAndReport(c, tr) ==
    [c EXCEPT !.pc = "reports", !.sorted_tr = Sorted(FilterPast(tr)),
              !.calls = Append(@, "get_line_reports")]

\* lines 176-202, once get_ordered_stops has returned topo_data
AfterTopologySwapped(c, topo_data) ==
    SortAndReport([c EXCEPT !.topo_data = topo_data, !.filtered = TRUE],
                  FilterByTopology(c.tr, topo_data, c.destination_simple,
                                   c.stop_id_simple))
AfterTopology(c, topo_data) ==
    SortAndReport([c EXCEPT !.topo_data = topo_data, !.filtered = TRUE],
                  FilterByTopology(c.tr, topo_data, c.stop_id_simple,
                                   c.destination_simple))

\* `if use_topology and self.destination_simple`
FilterWanted(c) == c.use_topology /\ Truthy(c.destination_simple)

\* lines 204-205: `except Exception as err: raise UpdateFailed() from err`
OnExceptionRequestErrorOnly(c, kind) ==
    [c EXCEPT !.pc = "done", !.raised = kind,
              !.outcome = IF kind \in {"exhausted", "request_error"}
                          THEN "UpdateFailed" ELSE kind]
OnException(c, kind) ==
    [c EXCEPT !.pc = "done", !.raised = kind, !.outcome = "UpdateFailed"]

\* what a call of self.api can raise: RequestError(429, all keys rate limited),
\* another RequestError, any other exception (a transport error)
ApiFailures == {"exhausted", "request_error", "exception"}

\* _async_update_data is entered, at one of the times `times`
AsyncUpdateDataAt(times) ==
    /\ coord.pc \in {"idle", "done"}
    /\ \E t \in times : coord' = StartRefresh(coord, t[1], t[2])
    /\ UNCHANGED <<ntokens, current_token_index, call, provider, norm, topology_cache,
                   topo, path>>

AsyncUpdateData == AsyncUpdateDataAt(Times)
AsyncUpdateDataAnyTime == AsyncUpdateDataAt(DayTimes)

\* get_traffic returns one of `answers`; the refresh runs on to its next await
TrafficReturns(answers) ==
    /\ coord.pc = "traffic"
    /\ \E tr \in answers :
          LET c == [coord EXCEPT !.tr = tr] IN
          IF FilterWanted(c)
          THEN LET f == EnterGetOrderedStops(topology_cache, c.line_id)
                   g == [c EXCEPT !.calls = Append(@, "get_ordered_stops")] IN
               /\ topo' = [topo EXCEPT ![1] = f]
               /\ coord' = IF f.pc = "done" THEN AfterTopology(g, f.ret)
                           ELSE [g EXCEPT !.pc = "topology"]
          ELSE /\ coord' = SortAndReport(c, tr)
               /\ topo' = topo
    /\ UNCHANGED <<ntokens, current_token_index, call, provider, norm, topology_cache, path>>

TrafficResponse == TrafficReturns(TrafficAnswers)
TrafficResponseNoDeparture == TrafficReturns({<< >>})

\* a call of self.api raises: `except Exception` turns it into UpdateFailed
ApiRaises ==
    /\ coord.pc \in {"traffic", "reports"}
    /\ \E kind \in ApiFailures : coord' = OnException(coord, kind)
    /\ UNCHANGED <<ntokens, current_token_index, call, provider, norm, topology_cache,
                   topo, path>>

\* the refresh resumes when the get_ordered_stops it awaits returns
ResumeRefresh ==
    coord' = IF topo'[1].pc # "done" THEN coord
             ELSE IF topo'[1].raised THEN OnException(coord, "TypeError")
             ELSE AfterTopology(coord, topo'[1].ret)

\* a request of the get_ordered_stops a refresh awaits is answered
RefreshRoutesResponse ==
    coord.pc = "topology" /\ RoutesAnswered(1) /\ ResumeRefresh
RefreshPointsResponse ==
    coord.pc = "topology" /\ PointsAnswered(1) /\ ResumeRefresh

\* get_line_reports returns: the refresh returns its data
LineReportsResponse ==
    /\ coord.pc = "reports"
    /\ coord' = [coord EXCEPT !.pc = "done", !.outcome = "data"]
    /\ UNCHANGED <<ntokens, current_token_index, call, provider, norm, topology_cache,
                   topo, path>>

\* Both _extract_stif_id are applied to one identifier
IdleNorm == [pc |-> "ready", id |-> None, topology |-> None, coordinator |-> None]
ExtractStifId ==
    /\ norm.pc = "ready"
    /\ norm' = [norm EXCEPT !.pc = "done",
                            !.topology = Topology_extract_stif_id(norm.id),
                            !.coordinator = Coordinator_extract_stif_id(norm.id)]
    /\ UNCHANGED <<ntokens, current_token_index, call, provider, topology_cache,
                   topo, path, coord>>

-----------------------------------------------------------------------------
(* Specifications *)

\* The objects a specification does not build
NotBuilt == "not built"
NoRotator == ntokens = NotBuilt /\ current_token_index = NotBuilt /\ call = NotBuilt
NoLineTopology == provider = NotBuilt /\ topology_cache = NotBuilt /\ topo = NotBuilt
NoPathQuery == path = NotBuilt
NoCoordinator == coord = NotBuilt
NoNormalization == norm = NotBuilt

IdlePath == [pc |-> "ready", topology |-> EmptyTable, start_id |-> None,
             target_id |-> None, terminus_id |-> None, result |-> FALSE]

\* The rotator as constructed (index 0), the other objects at rest
InitRotator ==
    /\ ntokens \in 1..MaxTokens
    /\ current_token_index = 0
    /\ call = [p \in Procs |-> IdleCall]
    /\ NoLineTopology
    /\ NoPathQuery
    /\ NoCoordinator
    /\ NoNormalization

\* One caller at a time goes through _call_with_retry
NextRotator ==
    \E p \in SeqProcs :
        \/ CallWithRetry(p)
        \/ RespOk(p)
        \/ Resp429(p)
        \/ RespRequestError(p)
        \/ RespException(p)

SpecRotator == InitRotator /\ [][NextRotator]_vars

\* Two callers go through _call_with_retry on one MultiKeyIDFMApi, interleaved
\* at the awaits (an error that is not a RequestError leaves the loop as a
\* RequestError with another code does: one of the two is enough here)
NextRotatorShared ==
    \E p \in Procs :
        \/ GetTraffic(p)
        \/ RespOk(p)
        \/ Resp429(p)
        \/ RespRequestError(p)

SpecRotatorShared == InitRotator /\ [][NextRotatorShared]_vars

\* func(client) comes back, one way or another (the client times out)
Respond(p) == RespOk(p) \/ Resp429(p) \/ RespRequestError(p)

\* ... and every awaited call of func(client) does come back
SpecRotatorSharedFair ==
    SpecRotatorShared /\ \A p \in Procs : WF_vars(Respond(p))

\* The identifiers _extract_stif_id is evaluated on: None, and every string
\* made of an optional provider prefix and a short body
IdChars == {"x", "1", ":"}
IdBodies == UNION { [1..n -> IdChars] : n \in 0..MaxIdLen }
IdPrefixes == {<< >>, S_stop_point \o S_IDFM, S_STIF_StopPoint_Q}
IdInputs == {None} \cup { prefix \o body : prefix \in IdPrefixes, body \in IdBodies }

InitExtract ==
    /\ NoRotator
    /\ NoLineTopology
    /\ NoPathQuery
    /\ NoCoordinator
    /\ \E id \in IdInputs : norm = [IdleNorm EXCEPT !.id = id]

NextExtract == ExtractStifId

SpecExtract == InitExtract /\ [][NextExtract]_vars

\* The arguments check_stop_on_path is evaluated on
\* (stops only matter by equality, so the tables have their routes under Code3)
Stops == {Code1, Code2, Code3}
RoutesWithin(size) == UNION { [1..n -> Stops] : n \in 1..size }
RECURSIVE RouteListsWithin(_)
RouteListsWithin(size) ==
    {<< >>} \cup UNION { { <<route>> \o rest : rest \in RouteListsWithin(size - Len(route)) } :
                         route \in RoutesWithin(size) }
Tables == {EmptyTable} \cup
          { [k \in {Code3} |-> rl] : rl \in RouteListsWithin(MaxTableStops) \ {<< >>} }

InitPath ==
    /\ NoRotator
    /\ NoLineTopology
    /\ \E t \in Tables, a, b, c \in Stops :
          path = [IdlePath EXCEPT !.topology = t, !.start_id = a,
                                  !.target_id = b, !.terminus_id = c]
    /\ NoCoordinator
    /\ NoNormalization

NextPath == CheckStopOnPath

SpecPath == InitPath /\ [][NextPath]_vars

\* A LineTopology with an empty cache, in front of any provider data
InitTopology ==
    /\ NoRotator
    /\ provider \in [Lines -> Datasets]
    /\ topology_cache = EmptyTable
    /\ topo = [p \in Procs |-> IdleTopo]
    /\ NoPathQuery
    /\ NoCoordinator
    /\ NoNormalization

\* One caller at a time goes through get_ordered_stops
NextTopology ==
    \E p \in SeqProcs :
        \/ GetOrderedStops(p)
        \/ RoutesResponse(p)
        \/ PointsResponse(p)

SpecTopology == InitTopology /\ [][NextTopology]_vars

\* A LineTopology with an empty cache that two callers share
InitTopologyShared ==
    /\ NoRotator
    /\ \E d \in Datasets : provider = [l \in Lines |-> d]
    /\ topology_cache = EmptyTable
    /\ topo = [p \in Procs |-> IdleTopo]
    /\ NoPathQuery
    /\ NoCoordinator
    /\ NoNormalization

\* Two callers go through get_ordered_stops, interleaved at the awaits
NextTopologyShared ==
    \E p \in Procs :
        \/ GetOrderedStops(p)
        \/ RoutesResponse(p)
        \/ PointsResponse(p)

SpecTopologyShared == InitTopologyShared /\ [][NextTopologyShared]_vars

\* A LineTopology whose tables are handed to check_stop_on_path
InitContainment ==
    /\ NoRotator
    /\ \E d \in Datasets : provider = [l \in Lines |-> d]
    /\ topology_cache = EmptyTable
    /\ topo = [p \in Procs |-> IdleTopo]
    /\ path = IdlePath
    /\ NoCoordinator
    /\ NoNormalization

NextContainment ==
    \E p \in SeqProcs :
        \/ GetOrderedStops(p)
        \/ RoutesResponse(p)
        \/ PointsResponse(p)
        \/ CheckStopOnPathOfTable(p)

SpecContainment == InitContainment /\ [][NextContainment]_vars

\* The configurations and provider data of the refresh cycles
Configurations == ({"train", "bus"} \X {None}) \cup ({"metro"} \X Destinations)
RefreshDatasets == {DataLinear, DataBranch, DataBareIds, DataNullId}

\* A coordinator as configured, its LineTopology with an empty cache
InitRefresh ==
    /\ NoRotator
    /\ \E d \in RefreshDatasets :
          provider = [l \in Lines |-> IF l = "L1" THEN d ELSE DataNoRoute]
    /\ topology_cache = EmptyTable
    /\ topo = [p \in Procs |-> IdleTopo]
    /\ NoPathQuery
    /\ \E cfg \in Configurations : coord = NewCoordinator(cfg[1], cfg[2])
    /\ NoNormalization

\* The refresh cycles of one coordinator, one after the other
NextRefresh ==
    \/ AsyncUpdateData
    \/ TrafficResponse
    \/ ApiRaises
    \/ RefreshRoutesResponse
    \/ RefreshPointsResponse
    \/ LineReportsResponse

SpecRefresh == InitRefresh /\ [][NextRefresh]_vars

\* A coordinator of any transport type, configured by names (no topology)
InitGate ==
    /\ NoRotator
    /\ NoLineTopology
    /\ NoPathQuery
    /\ \E transport_type \in TransportTypes, destination \in {None, Name_Paris} :
          coord = NewCoordinator(transport_type, destination)
    /\ NoNormalization

\* Its refresh cycles, at any time of the day
NextGate ==
    \/ AsyncUpdateDataAnyTime
    \/ TrafficResponseNoDeparture
    \/ ApiRaises
    \/ LineReportsResponse

SpecGate == InitGate /\ [][NextGate]_vars

-----------------------------------------------------------------------------
(* Properties of MultiKeyIDFMApi, one logical call at a time (SpecRotator) *)

Last(seq) == seq[Len(seq)]

\* the step in which caller p receives the answer `kind` to its attempt
Receives(p, kind) ==
    /\ call[p].pc = "await"
    /\ call'[p].answers = Append(call[p].answers, kind)

NoCredentialTwice(p) ==
    \A a, b \in 1..Len(call[p].tried) : a # b => call[p].tried[a] # call[p].tried[b]

RotatesAndRetries(p) ==
    Receives(p, "429") =>
        /\ current_token_index' = (current_token_index + 1) % ntokens
        /\ call'[p].pc = "await" =>
              /\ call'[p].client = current_token_index'
              /\ call'[p].tried = Append(call[p].tried, current_token_index')
              /\ call'[p].func = call[p].func

\* C1: in one logical call every 429 answer moves the active index from i to
\* (i+1) mod N, a retry is the same call on the newly active client, and no
\* credential is tried twice within the call.
C1_RotateRetryOncePerCredential ==
    /\ [](\A p \in SeqProcs : NoCredentialTwice(p))
    /\ [][\A p \in SeqProcs : RotatesAndRetries(p)]_vars

\* a call that started on the last credential was rate limited and retried on
\* credential 0
C1_Witness ==
    \E p \in SeqProcs :
        /\ ntokens >= 2
        /\ call[p].pc = "await"
        /\ call[p].answers = <<"429">>
        /\ call[p].tried = <<ntokens - 1, 0>>

AllRateLimited(p) ==
    \A j \in 1..Len(call[p].answers) : call[p].answers[j] = "429"

\* C2: when every credential answers 429 the call fails with the
\* all-keys-exhausted error after exactly N attempts, never N+1.
C2_ExhaustedAfterExactlyN ==
    \A p \in SeqProcs :
        /\ Len(call[p].tried) <= ntokens
        /\ (call[p].pc = "done" /\ AllRateLimited(p)) =>
              /\ call[p].result = "exhausted"
              /\ Len(call[p].tried) = ntokens
              /\ Len(call[p].answers) = ntokens
        /\ call[p].result = "exhausted" =>
              AllRateLimited(p) /\ Len(call[p].answers) = ntokens

C2_Witness ==
    \E p \in SeqProcs :
        /\ ntokens = MaxTokens
        /\ call[p].result = "exhausted"
        /\ Len(call[p].tried) = MaxTokens

PropagatesAtOnce(p, kind) ==
    Receives(p, kind) =>
        /\ call'[p].pc = "done"
        /\ call'[p].result = kind
        /\ call'[p].tried = call[p].tried
        /\ current_token_index' = current_token_index

\* C3: an error that is not a rate limit is propagated at once: no further
\* attempt is made and the active index is left as it was.
C3_OtherErrorPropagates ==
    [][\A p \in SeqProcs : PropagatesAtOnce(p, "request_error")
                           /\ PropagatesAtOnce(p, "exception")]_vars

\* a call failed with another error on its second attempt, after one rotation
C3_Witness ==
    \E p \in SeqProcs :
        /\ call[p].pc = "done"
        /\ call[p].result \in {"request_error", "exception"}
        /\ Len(call[p].tried) = 2
        /\ current_token_index = call[p].tried[2]

\* C4: k rate-limited credentials from index i on, then a success: the call
\* returns the success after k+1 attempts, on credentials i, i+1, ..., i+k
\* (mod N), and leaves the active index at (i+k) mod N.
C4_SuccessAfterKRotations ==
    \A p \in SeqProcs :
        (call[p].pc = "done" /\ call[p].answers # << >> /\ Last(call[p].answers) = "ok") =>
            LET k == Len(call[p].answers) - 1 IN
            /\ call[p].result = "ok"
            /\ k < ntokens
            /\ \A j \in 1..k : call[p].answers[j] = "429"
            /\ Len(call[p].tried) = k + 1
            /\ \A j \in 1..(k + 1) : call[p].tried[j] = (call[p].start + j - 1) % ntokens
            /\ current_token_index = (call[p].start + k) % ntokens

\* two credentials, the first rate limited and the second succeeding
C4_Witness ==
    \E p \in SeqProcs :
        /\ ntokens = 2
        /\ call[p].start = 0
        /\ call[p].answers = <<"429", "ok">>
        /\ call[p].result = "ok"
        /\ current_token_index = 1

-----------------------------------------------------------------------------
(* Properties of check_stop_on_path (SpecPath) *)

\* x is in the route and i is the index route.index(x) gives
FirstAt(route, i, x) ==
    route[i] = x /\ \A j \in 1..(i - 1) : route[j] # x

\* some route listed under the terminus holds start, target and terminus with
\* index(start) < index(target) <= index(terminus)
ServedBySomeRoute(topology, start_id, target_id, terminus_id) ==
    \E r \in 1..Len(topology[terminus_id]) :
        LET route == topology[terminus_id][r] IN
        \E a, b, c \in 1..Len(route) :
            /\ FirstAt(route, a, start_id)
            /\ FirstAt(route, b, target_id)
            /\ FirstAt(route, c, terminus_id)
            /\ a < b
            /\ b <= c

\* C5: check_stop_on_path is true exactly when the terminus is a key of the
\* table and a route under it holds start, target and terminus with
\* index(start) < index(target) <= index(terminus); it is false whenever the
\* terminus is not a key.
C5_PathIffOrderedOnSomeRoute ==
    path.pc = "done" =>
        /\ path.terminus_id \notin DOMAIN path.topology => path.result = FALSE
        /\ path.result =
              (/\ path.terminus_id \in DOMAIN path.topology
               /\ ServedBySomeRoute(path.topology, path.start_id, path.target_id,
                                    path.terminus_id))

\* the target is the terminus itself and only the second route under the
\* terminus holds the start
C5_Witness ==
    /\ path.pc = "done"
    /\ path.result = TRUE
    /\ path.target_id = path.terminus_id
    /\ path.terminus_id \in DOMAIN path.topology
    /\ Len(path.topology[path.terminus_id]) = 2
    /\ \A i \in 1..Len(path.topology[path.terminus_id][1]) :
          path.topology[path.terminus_id][1][i] # path.start_id

\* the table holds one route of distinct stops under its last stop, which is
\* the terminus asked for, and start and target are at positions i and j
OneRouteQuery(i, j) ==
    /\ path.pc = "done"
    /\ DOMAIN path.topology = {path.terminus_id}
    /\ Len(path.topology[path.terminus_id]) = 1
    /\ LET route == path.topology[path.terminus_id][1] IN
       /\ \A a, b \in 1..Len(route) : a # b => route[a] # route[b]
       /\ route[Len(route)] = path.terminus_id
       /\ i \in 1..Len(route) /\ route[i] = path.start_id
       /\ j \in 1..Len(route) /\ route[j] = path.target_id

\* C6 as stated: on a one-route table the answer is true for every i <= j and
\* false for every i > j.
C6_AsStated ==
    \A i, j \in 1..MaxTableStops : OneRouteQuery(i, j) => path.result = (i <= j)

\* C6 amended: on a one-route table the answer is true for every i < j and
\* false for every i >= j (a start equal to the target is not on the path).
C6_TrueIffStartBeforeTarget ==
    \A i, j \in 1..MaxTableStops : OneRouteQuery(i, j) => path.result = (i < j)

\* start and target are the same stop of a three-stop route: the answer is no
C6_Witness ==
    /\ \E i \in 1..MaxTableStops : OneRouteQuery(i, i)
    /\ Len(path.topology[path.terminus_id][1]) = 3
    /\ path.result = FALSE

-----------------------------------------------------------------------------
(* Properties of get_ordered_stops, one call at a time (SpecTopology) *)

\* the routes request of p's last call failed
RoutesRequestFailed(p) ==
    /\ topo[p].pc = "done"
    /\ topo[p].answers # << >>
    /\ topo[p].answers[1] # "ok"

\* p enters get_ordered_stops for the line of its previous call
CallsAgain(p) ==
    /\ topo[p].pc = "done"
    /\ topo'[p] # topo[p]
    /\ topo'[p].line = topo[p].line

\* C7: when the routes request fails, get_ordered_stops returns an empty
\* table and writes nothing to the cache, so that the next call for the line
\* issues the routes request again.
C7_RoutesFailureNotCached ==
    /\ [](\A p \in SeqProcs : RoutesRequestFailed(p) =>
             /\ topo[p].ret = EmptyTable
             /\ Len(topo[p].reqs) = 1
             /\ topo[p].line \notin DOMAIN topology_cache)
    /\ [][\A p \in SeqProcs : (RoutesRequestFailed(p) /\ CallsAgain(p)) =>
             /\ topo'[p].pc = "routes"
             /\ topo'[p].reqs = <<RoutesUrl(topo[p].line)>>]_vars

\* the routes request for L1 got a non-success response while L2 is cached
C7_Witness ==
    \E p \in SeqProcs :
        /\ RoutesRequestFailed(p)
        /\ topo[p].answers = <<"non200">>
        /\ topo[p].line = "L1"
        /\ "L2" \in DOMAIN topology_cache

\* a request of p's last call met a transport error or a non-success response
SomeRequestFailed(p) ==
    \E j \in 1..Len(topo[p].answers) : topo[p].answers[j] \in {"raised", "non200"}

\* C8: if any request of get_ordered_stops fails, the routes request or a
\* stop_points request, the call returns an empty table.
C8_AnyFailureGivesEmptyTable ==
    \A p \in SeqProcs :
        (topo[p].pc = "done" /\ SomeRequestFailed(p)) => topo[p].ret = EmptyTable

\* p enters get_ordered_stops
Calls(p) == topo[p].pc \in {"idle", "done"} /\ topo'[p] # topo[p]

\* C9: once a table is stored for a line, every later call for the line
\* returns that table without a request, and the stored table never changes.
C9_CachedTableIsFinal ==
    /\ [][\A l \in DOMAIN topology_cache :
             /\ l \in DOMAIN topology_cache'
             /\ topology_cache'[l] = topology_cache[l]]_vars
    /\ [][\A p \in SeqProcs :
             (Calls(p) /\ topo'[p].line \in DOMAIN topology_cache) =>
                 /\ topo'[p].pc = "done"
                 /\ topo'[p].ret = topology_cache[topo'[p].line]
                 /\ topo'[p].reqs = << >>
                 /\ topology_cache' = topology_cache]_vars

\* a call was answered from the cache, with a table that has routes
C9_Witness ==
    \E p \in SeqProcs :
        /\ topo[p].pc = "done"
        /\ topo[p].reqs = << >>
        /\ topo[p].line \in DOMAIN topology_cache
        /\ topo[p].ret = topology_cache[topo[p].line]
        /\ topo[p].ret # EmptyTable

-----------------------------------------------------------------------------
(* Properties of the refresh cycle (SpecRefresh) *)

\* get_ordered_stops has returned to the refresh, in topology-filtered mode
TopologyReturned ==
    /\ FilterWanted(coord)
    /\ coord.pc = "reports" \/ (coord.pc = "done" /\ coord.outcome = "data")

\* C10: in topology-filtered mode, when get_ordered_stops returns an empty
\* table the refresh keeps every fetched departure, subject only to the
\* already-departed filter.
C10_EmptyTableMeansNoFiltering ==
    (TopologyReturned /\ coord.topo_data = EmptyTable) =>
        coord.sorted_tr = Sorted(FilterPast(coord.tr))

\* how many times the departure d occurs in the list tr
Count(tr, d) == Cardinality({i \in 1..Len(tr) : tr[i] = d})

\* the terminus of d, normalized, is on the path from the configured stop
\* through the configured destination, and d is still to come
Kept(d) ==
    /\ check_stop_on_path(coord.topo_data, coord.stop_id_simple,
                          coord.destination_simple,
                          Coordinator_extract_stif_id(d.destination_id))
    /\ d.schedule # NoSchedule
    /\ d.schedule > Utcd

\* C11: in topology-filtered mode with a non-empty table, the returned list
\* holds exactly the fetched departures whose normalized terminus passes
\* check_stop_on_path and whose schedule is present and later than now, by
\* ascending schedule; no departure whose terminus is not a key of the table
\* is returned; the table is fetched before the filter runs, and the filter
\* runs before the sort.
C11_FilteredSortedDepartures ==
    /\ (TopologyReturned /\ coord.topo_data # EmptyTable) =>
          /\ \A i \in 1..Len(coord.tr) :
                Count(coord.sorted_tr, coord.tr[i]) =
                    IF Kept(coord.tr[i]) THEN Count(coord.tr, coord.tr[i]) ELSE 0
          /\ \A i \in 1..Len(coord.sorted_tr) : Count(coord.tr, coord.sorted_tr[i]) > 0
          /\ \A i, j \in 1..Len(coord.sorted_tr) :
                i < j => coord.sorted_tr[i].schedule <= coord.sorted_tr[j].schedule
          /\ \A i \in 1..Len(coord.sorted_tr) :
                Coordinator_extract_stif_id(coord.sorted_tr[i].destination_id)
                    \in DOMAIN coord.topo_data
    /\ coord.pc = "topology" =>
          /\ topo[1].pc \in {"routes", "points"}
          /\ ~coord.filtered
          /\ coord.sorted_tr = << >>
    /\ coord.filtered =>
          /\ topo[1].pc = "done"
          /\ coord.topo_data = topo[1].ret
    /\ (FilterWanted(coord) /\ coord.sorted_tr # << >>) => coord.filtered

\* two departures past the filter that the sort exchanged, next to a table
\* that is not empty
C11_Witness ==
    /\ TopologyReturned
    /\ coord.topo_data # EmptyTable
    /\ coord.outcome = "data"
    /\ Len(coord.tr) = 2
    /\ Len(coord.sorted_tr) = 2
    /\ coord.tr[1] # coord.tr[2]
    /\ coord.sorted_tr[1] = coord.tr[2]

-----------------------------------------------------------------------------
(* Properties of identifier normalization (SpecExtract) *)

\* the colon-delimited segments of an identifier
Segments(id) == StrSplit(id, <<":">>)

\* an identifier of the form A:B:C:CODE:
IsComposite(id) ==
    /\ id # None
    /\ Len(Segments(id)) = 5
    /\ Segments(id)[5] = << >>
    /\ \A i \in 1..4 : Segments(id)[i] # << >>

\* fewer than two colon-delimited segments
IsMalformed(id) == id # None /\ Len(Segments(id)) < 2

\* C12: both _extract_stif_id yield CODE for every identifier of the form
\* A:B:C:CODE:, and the absent value for every malformed identifier (fewer
\* than two colon-delimited segments) and for an absent identifier.
C12_NormalizationInBothPlaces ==
    norm.pc = "done" =>
        /\ IsComposite(norm.id) =>
              /\ norm.topology = Segments(norm.id)[4]
              /\ norm.coordinator = Segments(norm.id)[4]
        /\ (norm.id = None \/ IsMalformed(norm.id)) =>
              /\ norm.topology = None
              /\ norm.coordinator = None

-----------------------------------------------------------------------------
(* Properties of the tables get_ordered_stops builds (SpecContainment) *)

\* no absent key, no empty route, no absent stop identifier
WellFormed(table) ==
    \A k \in DOMAIN table :
        /\ Truthy(k)
        /\ table[k] # << >>
        /\ \A i \in 1..Len(table[k]) :
              /\ table[k][i] # << >>
              /\ \A j \in 1..Len(table[k][i]) :
                    Truthy(table[k][i][j]) /\ table[k][i][j] # TypeErrorRaised

\* C13: no table built by get_ordered_stops holds an absent stop identifier,
\* an absent key or an empty route; check_stop_on_path on such a table is
\* False whenever start, target or terminus is absent.
C13_ContainmentFailsClosed ==
    /\ \A l \in DOMAIN topology_cache : WellFormed(topology_cache[l])
    /\ \A p \in SeqProcs : WellFormed(topo[p].topology) /\ WellFormed(topo[p].ret)
    /\ path.pc = "done" =>
          /\ WellFormed(path.topology)
          /\ None \in {path.start_id, path.target_id, path.terminus_id} =>
                path.result = FALSE

\* a table with a route under Code2, queried with an absent start
C13_Witness ==
    /\ path.pc = "done"
    /\ path.start_id = None
    /\ path.target_id = Code1
    /\ path.terminus_id = Code2
    /\ Code2 \in DOMAIN path.topology
    /\ path.result = FALSE

-----------------------------------------------------------------------------
(* Properties of get_ordered_stops under interleaving (SpecTopologyShared) *)

\* caller p is between its first request and its return
InFlight(p) == topo[p].pc \in {"routes", "points"}

\* caller p went to the network and has returned
Fetched(p) == topo[p].pc = "done" /\ topo[p].reqs # << >>

\* this step changes or creates the cache entry of line l
Writes(l) ==
    /\ l \in DOMAIN topology_cache'
    /\ l \notin DOMAIN topology_cache \/ topology_cache'[l] # topology_cache[l]

\* caller p returns in this step, having gone through every route, and the
\* entry of its line is the table it returns
StoresWhenDone(p) ==
    /\ InFlight(p)
    /\ topo'[p].pc = "done"
    /\ topo'[p].wrote
    /\ topo'[p].pending = << >>
    /\ topo'[p].ret = topo'[p].topology
    /\ topology_cache'[topo[p].line] = topo'[p].ret

\* C14: when two get_ordered_stops calls for one uncached line interleave,
\* both issue the routes request; an entry of the cache is only ever written
\* by a caller that returns, with the whole table that caller built, so the
\* entry is missing or complete and is the table of the last writer; callers
\* that got the same answers return equal tables.
C14_InterleavedCallsCacheWholeTables ==
    /\ [](\A p \in Procs : InFlight(p) => topo[p].reqs[1] = RoutesUrl(topo[p].line))
    /\ [][\A l \in Lines : Writes(l) =>
             \E p \in Procs : topo[p].line = l /\ StoresWhenDone(p)]_vars
    /\ [][\A p \in Procs : (InFlight(p) /\ topo'[p].pc = "done" /\ topo'[p].wrote) =>
             StoresWhenDone(p)]_vars
    /\ []((Fetched(1) /\ Fetched(2) /\ topo[1].line = topo[2].line
              /\ topo[1].answers = topo[2].answers) =>
            (topo[1].ret = topo[2].ret /\ topo[1].raised = topo[2].raised))

\* both callers are in flight for one line that is not cached, one of them
\* with a partly built table
C14_Witness ==
    /\ topo[1].pc = "points"
    /\ topo[2].pc = "routes"
    /\ topo[1].line = topo[2].line
    /\ topo[1].line \notin DOMAIN topology_cache
    /\ topo[1].topology # EmptyTable

-----------------------------------------------------------------------------
(* Properties of MultiKeyIDFMApi under interleaving (SpecRotatorShared) *)

\* C15: when two logical calls share one MultiKeyIDFMApi and interleave at
\* their awaits, no credential is tried more than once within either call.
C15_NoCredentialTwiceWhenShared ==
    \A p \in Procs : NoCredentialTwice(p)

\* C16: under any interleaving of the logical calls that share the rotator and
\* any pattern of answers, a logical call makes at most N attempts and then
\* returns or raises, and the active index stays within 0..N-1.
C16_AtMostNAttemptsThenDone ==
    /\ [](\A p \in Procs : /\ Len(call[p].tried) <= ntokens
                            /\ call[p].attempts <= ntokens
                            /\ Len(call[p].answers) <= ntokens)
    /\ [](current_token_index \in 0..(ntokens - 1))
    /\ \A p \in Procs : (call[p].pc = "await" ~> call[p].pc = "done")

\* two interleaved calls that both used up their N attempts, the second one
\* having come back to a credential it had tried
C16_Witness ==
    /\ ntokens >= 2
    /\ call[1].result = "exhausted"
    /\ call[2].result = "exhausted"
    /\ Len(call[2].tried) = ntokens
    /\ ~NoCredentialTwice(2)

-----------------------------------------------------------------------------
(* Properties of the refresh cycle: failures and modes (SpecRefresh) *)

\* C17: whatever is raised inside a refresh (a traffic or line-report call
\* failing with a transport error, another error or all credentials rate
\* limited, get_ordered_stops raising) leaves the refresh as UpdateFailed,
\* with nothing returned; the refresh ends in no other way than data, skip
\* or UpdateFailed.
C17_FailuresSurfaceAsUpdateFailed ==
    /\ coord.raised # "none" => (coord.pc = "done" /\ coord.outcome = "UpdateFailed")
    /\ coord.outcome = "UpdateFailed" => (coord.pc = "done" /\ coord.raised # "none")
    /\ coord.outcome \in {"none", "data", "skipped", "UpdateFailed"}
    /\ coord.pc = "done" <=> coord.outcome # "none"

\* the line-report call failed on a transport error, after the departures
\* had been filtered and sorted
C17_Witness ==
    /\ coord.raised = "exception"
    /\ Last(coord.calls) = "get_line_reports"
    /\ coord.sorted_tr # << >>
    /\ coord.outcome = "UpdateFailed"

\* the configured destination is a structured stop identifier with a
\* normalized code
Structured(c) ==
    /\ Truthy(c.destination)
    /\ StrContains(c.destination, S_STIF)
    /\ Truthy(c.destination_simple)

\* the refresh has got past get_traffic and past the filtering, if any
PastFiltering == "get_line_reports" \in {coord.calls[i] : i \in 1..Len(coord.calls)}

\* C18: a refresh filters by topology exactly when the destination is a
\* structured stop identifier with a normalized code: then get_traffic is
\* asked with destination and direction unset and get_ordered_stops is called
\* once in the cycle; otherwise get_traffic is asked with the configured
\* destination and direction, get_ordered_stops is not called and topology
\* removes no departure.
C18_TopologyModeIffStructuredDestination ==
    coord.calls # << >> =>
        IF Structured(coord)
        THEN /\ coord.req_destination = None
             /\ coord.req_direction = None
             /\ PastFiltering =>
                   (coord.filtered /\ Count(coord.calls, "get_ordered_stops") = 1)
        ELSE /\ coord.req_destination = coord.destination
             /\ coord.req_direction = coord.direction
             /\ Count(coord.calls, "get_ordered_stops") = 0
             /\ ~coord.filtered
             /\ PastFiltering => coord.sorted_tr = Sorted(FilterPast(coord.tr))

-----------------------------------------------------------------------------
(* The active index across logical calls (SpecRotator) *)

\* caller p enters _call_with_retry in this step
Enters(p) ==
    /\ call[p].pc \in {"idle", "done"}
    /\ call'[p].pc = "await"

\* C19: after a logical call that used up all N credentials the active index
\* is the one the call started from (N rotations go once round the pool), it
\* is not set back to 0, and the next logical call starts from that index.
C19_IndexBackAtStartAfterExhaustion ==
    /\ [](\A p \in SeqProcs :
            call[p].result = "exhausted" =>
                /\ current_token_index = call[p].start
                /\ Len(call[p].tried) = ntokens)
    /\ [][\A p \in SeqProcs :
            Enters(p) => /\ current_token_index' = current_token_index
                         /\ call'[p].start = current_token_index
                         /\ call'[p].tried = <<current_token_index>>]_vars

\* a second logical call running on credential 1, where the call before it,
\* rate limited on all three credentials, had left the index
C19_Witness ==
    \E p \in SeqProcs :
        /\ ntokens = 3
        /\ call[p].start = 1
        /\ call[p].result = "exhausted"
        /\ call[p].tried = <<1, 2, 0>>
        /\ current_token_index = 1

-----------------------------------------------------------------------------
(* The maintenance window (SpecGate) *)

\* from 01:30 inclusive to 05:30 exclusive
InWindow(hour, minute) ==
    /\ 60 * 1 + 30 <= 60 * hour + minute
    /\ 60 * hour + minute < 60 * 5 + 30

\* C20: for train, metro and tram a refresh between 01:30 (included) and
\* 05:30 (excluded) issues no remote call and returns no data; at every other
\* time, and for every other transport type at any time, the refresh issues
\* the traffic call and then the line-report call.
C20_NoCallInsideWindow ==
    coord.pc # "idle" =>
        IF coord.transport_type \in {"train", "metro", "tram"}
           /\ InWindow(coord.hour, coord.minute)
        THEN /\ coord.pc = "done"
             /\ coord.outcome = "skipped"
             /\ coord.calls = << >>
             /\ coord.sorted_tr = << >>
        ELSE /\ coord.calls # << >>
             /\ coord.calls[1] = "get_traffic"
             /\ coord.outcome # "skipped"
             /\ (coord.pc = "reports" \/ coord.outcome = "data") =>
                   coord.calls = <<"get_traffic", "get_line_reports">>

\* a tram at 05:29, skipped
C20_Witness ==
    /\ coord.transport_type = "tram"
    /\ coord.hour = 5
    /\ coord.minute = 29
    /\ coord.pc = "done"
    /\ coord.outcome = "skipped"
    /\ coord.calls = << >>

====
